---- MODULE Spec2Model ----
(***************************************************************************)
(* Option containers of the mongocxx driver and their document compiler:   *)
(*   options::create_collection_deprecated  (setters, getters,             *)
(*                                            to_document_deprecated)      *)
(*   model::update_one                      (three constructors, setters,  *)
(*                                            getters)                     *)
(*                                                                         *)
(* A BSON document is a sequence of <<key, <<type, payload>>>> pairs, a    *)
(* BSON array a sequence of <<type, payload>> elements, an optional<T> is  *)
(* <<>> (absent) or <<v>> (present).  One behaviour is the life of one     *)
(* container: it is constructed, then setters, getters and the compiler    *)
(* are called on it in any order.  ret is the value returned by the most   *)
(* recent call, last names that call and its arguments.                    *)
(***************************************************************************)
EXTENDS Integers, Sequences, FiniteSets, TLC

VARIABLES kind, cc, uo, last, ret

vars == <<kind, cc, uo, last, ret>>

\* ------------------------------------------------------------------ bounds
\* documents handed in by the caller have 0..MaxDocLen fields
MaxDocLen == 1
\* int64 arguments of max() and size() range over 0..MaxInt64Arg
MaxInt64Arg == 1
\* pipelines have 0..MaxStages stages
MaxStages == 2
\* array filters have 0..MaxFilters elements
MaxFilters == 1

\* ------------------------------------------------------- values and inputs
nullopt == <<>>

Some(v) == <<v>>

\* the caller's document {x1: 1, ..., xn: n}; SampleDoc(0) is the empty document
SampleDoc(n) == [j \in 1..n |-> <<"x" \o ToString(j), <<"int32", j>>>>]

Docs == {SampleDoc(n) : n \in 0..MaxDocLen}

Int64Args == 0..MaxInt64Arg

RECURSIVE SeqsUpTo(_, _)
SeqsUpTo(S, n) ==
    IF n = 0 THEN {<<>>}
    ELSE LET shorter == SeqsUpTo(S, n - 1)
         IN  shorter \cup {Append(s, e) : s \in {t \in shorter : Len(t) = n - 1}, e \in S}

\* the documents used as pipeline stages and as array elements
Stages == {SampleDoc(0), SampleDoc(MaxDocLen)}

\* a pipeline is its ordered sequence of stage documents
Pipelines == SeqsUpTo(Stages, MaxStages)

\* array filters handed in by the caller: arrays of documents
Arrays == {[i \in 1..Len(p) |-> <<"document", p[i]>>] : p \in SeqsUpTo(Stages, MaxFilters)}

\* a hint is an index name or an index specification document
Hints == {<<"utf8", "idx_1">>, <<"document", SampleDoc(1)>>}

Keys(doc) == [i \in 1..Len(doc) |-> doc[i][1]]

HasKey(doc, k) == \E i \in 1..Len(doc) : doc[i][1] = k

\* ------------------------------------------------------ bsoncxx primitives
\* basic::document::append(kvp(k, v))
append(doc, k, v) == Append(doc, <<k, v>>)

\* basic::document::append(concatenate(d)): the elements of d, in order
concatenate(doc, d) == doc \o d

\* default-constructed document::view_or_value: a view of the empty document
default_document == <<>>

\* pipeline::view_array(): the stages as a BSON array
view_array(p) == [i \in 1..Len(p) |-> <<"document", p[i]>>]

\* document::value(array::view): the same bytes read as a document, whose
\* keys are the decimal indexes "0", "1", ...
document_value(arr) == [i \in 1..Len(arr) |-> <<ToString(i - 1), arr[i]>>]

\* --------------------------------------------------- validation_criteria
ValidationCriteria ==
    [_rule : {nullopt, Some(SampleDoc(1))},
     _level : {nullopt, Some("strict")},
     _action : {nullopt, Some("warn")}]

validation_to_document_deprecated(v) ==
    LET d0 == <<>>
        d1 == IF v._rule # nullopt THEN append(d0, "validator", <<"document", v._rule[1]>>) ELSE d0
        d2 == IF v._level # nullopt THEN append(d1, "validationLevel", <<"utf8", v._level[1]>>) ELSE d1
        d3 == IF v._action # nullopt THEN append(d2, "validationAction", <<"utf8", v._action[1]>>) ELSE d2
    IN  d3

\* ------------------------------------------- create_collection_deprecated
create_collection_deprecated ==
    [_capped |-> nullopt, _collation |-> nullopt, _max_documents |-> nullopt,
     _max_size |-> nullopt, _no_padding |-> nullopt,
     _storage_engine_opts |-> nullopt, _validation |-> nullopt]

capped(c, v) == [c EXCEPT !._capped = Some(v)]

collation(c, v) == [c EXCEPT !._collation = Some(v)]

max(c, v) == [c EXCEPT !._max_documents = Some(v)]

no_padding(c, v) == [c EXCEPT !._no_padding = Some(v)]

size(c, v) == [c EXCEPT !._max_size = Some(v)]

\* the argument assigned to the other document member, _collation
storage_engine_into_collation(c, v) == [c EXCEPT !._collation = Some(v)]

storage_engine(c, v) == [c EXCEPT !._storage_engine_opts = Some(v)]

validation_criteria(c, v) == [c EXCEPT !._validation = Some(v)]

\* `if (_capped && *_capped)`: a falsy value taken for an absent one
append_capped_truthy(c, doc) ==
    IF c._capped # nullopt /\ c._capped[1]
    THEN append(doc, "capped", <<"bool", c._capped[1]>>) ELSE doc

append_capped(c, doc) ==
    IF c._capped # nullopt
    THEN append(doc, "capped", <<"bool", c._capped[1]>>) ELSE doc

append_collation(c, doc) ==
    IF c._collation # nullopt
    THEN append(doc, "collation", <<"document", c._collation[1]>>) ELSE doc

append_max(c, doc) ==
    IF c._max_documents # nullopt
    THEN append(doc, "max", <<"int64", c._max_documents[1]>>) ELSE doc

append_size(c, doc) ==
    IF c._max_size # nullopt
    THEN append(doc, "size", <<"int64", c._max_size[1]>>) ELSE doc

\* the boolean appended as it is instead of the legacy bit flag
append_flags_bool(c, doc) ==
    IF c._no_padding # nullopt
    THEN append(doc, "flags", <<"bool", c._no_padding[1]>>) ELSE doc

append_flags(c, doc) ==
    IF c._no_padding # nullopt
    THEN append(doc, "flags", <<"int32", IF c._no_padding[1] THEN 16 ELSE 0>>) ELSE doc

append_storage_engine(c, doc) ==
    IF c._storage_engine_opts # nullopt
    THEN append(doc, "storageEngine", <<"document", c._storage_engine_opts[1]>>) ELSE doc

\* the sub-document nested under a key of its own instead of spliced
append_validation_nested(c, doc) ==
    IF c._validation # nullopt
    THEN append(doc, "validation",
                <<"document", validation_to_document_deprecated(c._validation[1])>>)
    ELSE doc

append_validation(c, doc) ==
    IF c._validation # nullopt
    THEN concatenate(doc, validation_to_document_deprecated(c._validation[1])) ELSE doc

\* the blocks of "size" and "max" exchanged
to_document_deprecated_size_first(c) ==
    append_validation(c,
      append_storage_engine(c,
        append_flags(c,
          append_max(c,
            append_size(c,
              append_collation(c,
                append_capped(c, <<>>)))))))

\* the seven blocks run in source order on a fresh builder, then extract()
to_document_deprecated(c) ==
    append_validation(c,
      append_storage_engine(c,
        append_flags(c,
          append_size(c,
            append_max(c,
              append_collation(c,
                append_capped(c, <<>>)))))))

\* an entry point of its own that leaves the validation criteria out
to_document_without_validation(c) ==
    to_document_deprecated([c EXCEPT !._validation = nullopt])

to_document(c) == to_document_deprecated(c)

\* ------------------------------------------------------------- update_one
NoObject == [_constructed |-> FALSE]

update_one(filter, update) ==
    [_filter |-> filter, _update |-> update, _collation |-> nullopt,
     _array_filters |-> nullopt, _upsert |-> nullopt, _hint |-> nullopt]

\* the pipeline left out of the member initialisers
update_one_pipeline_dropped(filter, update) ==
    [_filter |-> filter, _update |-> default_document,
     _collation |-> nullopt, _array_filters |-> nullopt, _upsert |-> nullopt,
     _hint |-> nullopt]

update_one_pipeline(filter, update) ==
    [_filter |-> filter, _update |-> document_value(view_array(update)),
     _collation |-> nullopt, _array_filters |-> nullopt, _upsert |-> nullopt,
     _hint |-> nullopt]

\* upsert initialised to the server default instead of left absent
update_one_empty_upsert_false(filter) ==
    [_filter |-> filter, _update |-> default_document, _collation |-> nullopt,
     _array_filters |-> nullopt, _upsert |-> Some(FALSE), _hint |-> nullopt]

\* the filter stored as the update too
update_one_empty_filter_as_update(filter) ==
    [_filter |-> filter, _update |-> filter, _collation |-> nullopt,
     _array_filters |-> nullopt, _upsert |-> nullopt, _hint |-> nullopt]

update_one_empty(filter) ==
    [_filter |-> filter, _update |-> default_document, _collation |-> nullopt,
     _array_filters |-> nullopt, _upsert |-> nullopt, _hint |-> nullopt]

update_one_collation(u, v) == [u EXCEPT !._collation = Some(v)]

update_one_hint(u, v) == [u EXCEPT !._hint = Some(v)]

\* upsert(false) taken as "back to the default": the option is cleared
update_one_upsert_false_clears(u, v) ==
    [u EXCEPT !._upsert = IF v THEN Some(v) ELSE nullopt]

update_one_upsert(u, v) == [u EXCEPT !._upsert = Some(v)]

update_one_array_filters(u, v) == [u EXCEPT !._array_filters = Some(v)]

\* ------------------------------------------------------------------ state
Init ==
    /\ kind = "none"
    /\ cc = NoObject
    /\ uo = NoObject
    /\ last = [op |-> "none", args |-> <<>>]
    /\ ret = <<"none">>

\* the reference *this returned by every setter
self == <<"self">>

Call(op, args) == [op |-> op, args |-> args]

Construct_create_collection ==
    /\ kind = "none"
    /\ kind' = "create_collection"
    /\ cc' = create_collection_deprecated
    /\ last' = Call("create_collection_deprecated", <<>>)
    /\ ret' = <<"none">>
    /\ UNCHANGED uo

Set_capped ==
    /\ kind = "create_collection"
    /\ \E v \in BOOLEAN :
          /\ cc' = capped(cc, v)
          /\ last' = Call("capped", <<v>>)
    /\ ret' = self
    /\ UNCHANGED <<kind, uo>>

Set_collation ==
    /\ kind = "create_collection"
    /\ \E v \in Docs :
          /\ cc' = collation(cc, v)
          /\ last' = Call("collation", <<v>>)
    /\ ret' = self
    /\ UNCHANGED <<kind, uo>>

Set_max ==
    /\ kind = "create_collection"
    /\ \E v \in Int64Args :
          /\ cc' = max(cc, v)
          /\ last' = Call("max", <<v>>)
    /\ ret' = self
    /\ UNCHANGED <<kind, uo>>

Set_no_padding ==
    /\ kind = "create_collection"
    /\ \E v \in BOOLEAN :
          /\ cc' = no_padding(cc, v)
          /\ last' = Call("no_padding", <<v>>)
    /\ ret' = self
    /\ UNCHANGED <<kind, uo>>

Set_size ==
    /\ kind = "create_collection"
    /\ \E v \in Int64Args :
          /\ cc' = size(cc, v)
          /\ last' = Call("size", <<v>>)
    /\ ret' = self
    /\ UNCHANGED <<kind, uo>>

Set_storage_engine ==
    /\ kind = "create_collection"
    /\ \E v \in Docs :
          /\ cc' = storage_engine(cc, v)
          /\ last' = Call("storage_engine", <<v>>)
    /\ ret' = self
    /\ UNCHANGED <<kind, uo>>

Set_validation_criteria ==
    /\ kind = "create_collection"
    /\ \E v \in ValidationCriteria :
          /\ cc' = validation_criteria(cc, v)
          /\ last' = Call("validation_criteria", <<v>>)
    /\ ret' = self
    /\ UNCHANGED <<kind, uo>>

\* the const getters return a reference to the stored optional
Get_capped ==
    /\ kind = "create_collection"
    /\ ret' = <<"optional", cc._capped>>
    /\ last' = Call("capped()", <<>>)
    /\ UNCHANGED <<kind, cc, uo>>

Get_collation ==
    /\ kind = "create_collection"
    /\ ret' = <<"optional", cc._collation>>
    /\ last' = Call("collation()", <<>>)
    /\ UNCHANGED <<kind, cc, uo>>

Get_max ==
    /\ kind = "create_collection"
    /\ ret' = <<"optional", cc._max_documents>>
    /\ last' = Call("max()", <<>>)
    /\ UNCHANGED <<kind, cc, uo>>

Get_no_padding ==
    /\ kind = "create_collection"
    /\ ret' = <<"optional", cc._no_padding>>
    /\ last' = Call("no_padding()", <<>>)
    /\ UNCHANGED <<kind, cc, uo>>

Get_size ==
    /\ kind = "create_collection"
    /\ ret' = <<"optional", cc._max_size>>
    /\ last' = Call("size()", <<>>)
    /\ UNCHANGED <<kind, cc, uo>>

Get_storage_engine ==
    /\ kind = "create_collection"
    /\ ret' = <<"optional", cc._storage_engine_opts>>
    /\ last' = Call("storage_engine()", <<>>)
    /\ UNCHANGED <<kind, cc, uo>>

Get_validation_criteria ==
    /\ kind = "create_collection"
    /\ ret' = <<"optional", cc._validation>>
    /\ last' = Call("validation_criteria()", <<>>)
    /\ UNCHANGED <<kind, cc, uo>>

\* const member functions: the container is left as it is
Call_to_document_deprecated ==
    /\ kind = "create_collection"
    /\ ret' = <<"document", to_document_deprecated(cc)>>
    /\ last' = Call("to_document_deprecated", <<>>)
    /\ UNCHANGED <<kind, cc, uo>>

Call_to_document ==
    /\ kind = "create_collection"
    /\ ret' = <<"document", to_document(cc)>>
    /\ last' = Call("to_document", <<>>)
    /\ UNCHANGED <<kind, cc, uo>>

Construct_update_one ==
    /\ kind = "none"
    /\ kind' = "update_one"
    /\ \E filter \in Docs, update \in Docs :
          /\ uo' = update_one(filter, update)
          /\ last' = Call("update_one", <<filter, update>>)
    /\ ret' = <<"none">>
    /\ UNCHANGED cc

Construct_update_one_pipeline ==
    /\ kind = "none"
    /\ kind' = "update_one"
    /\ \E filter \in Docs, update \in Pipelines :
          /\ uo' = update_one_pipeline(filter, update)
          /\ last' = Call("update_one_pipeline", <<filter, update>>)
    /\ ret' = <<"none">>
    /\ UNCHANGED cc

Construct_update_one_empty ==
    /\ kind = "none"
    /\ kind' = "update_one"
    /\ \E filter \in Docs :
          /\ uo' = update_one_empty(filter)
          /\ last' = Call("update_one_empty", <<filter>>)
    /\ ret' = <<"none">>
    /\ UNCHANGED cc

Set_update_one_collation ==
    /\ kind = "update_one"
    /\ \E v \in Docs :
          /\ uo' = update_one_collation(uo, v)
          /\ last' = Call("collation", <<v>>)
    /\ ret' = self
    /\ UNCHANGED <<kind, cc>>

Set_update_one_hint ==
    /\ kind = "update_one"
    /\ \E v \in Hints :
          /\ uo' = update_one_hint(uo, v)
          /\ last' = Call("hint", <<v>>)
    /\ ret' = self
    /\ UNCHANGED <<kind, cc>>

Set_update_one_upsert ==
    /\ kind = "update_one"
    /\ \E v \in BOOLEAN :
          /\ uo' = update_one_upsert(uo, v)
          /\ last' = Call("upsert", <<v>>)
    /\ ret' = self
    /\ UNCHANGED <<kind, cc>>

Set_update_one_array_filters ==
    /\ kind = "update_one"
    /\ \E v \in Arrays :
          /\ uo' = update_one_array_filters(uo, v)
          /\ last' = Call("array_filters", <<v>>)
    /\ ret' = self
    /\ UNCHANGED <<kind, cc>>

Get_update_one_filter ==
    /\ kind = "update_one"
    /\ ret' = <<"document", uo._filter>>
    /\ last' = Call("filter()", <<>>)
    /\ UNCHANGED <<kind, cc, uo>>

Get_update_one_update ==
    /\ kind = "update_one"
    /\ ret' = <<"document", uo._update>>
    /\ last' = Call("update()", <<>>)
    /\ UNCHANGED <<kind, cc, uo>>

Get_update_one_collation ==
    /\ kind = "update_one"
    /\ ret' = <<"optional", uo._collation>>
    /\ last' = Call("collation()", <<>>)
    /\ UNCHANGED <<kind, cc, uo>>

Get_update_one_hint ==
    /\ kind = "update_one"
    /\ ret' = <<"optional", uo._hint>>
    /\ last' = Call("hint()", <<>>)
    /\ UNCHANGED <<kind, cc, uo>>

Get_update_one_upsert ==
    /\ kind = "update_one"
    /\ ret' = <<"optional", uo._upsert>>
    /\ last' = Call("upsert()", <<>>)
    /\ UNCHANGED <<kind, cc, uo>>

Get_update_one_array_filters ==
    /\ kind = "update_one"
    /\ ret' = <<"optional", uo._array_filters>>
    /\ last' = Call("array_filters()", <<>>)
    /\ UNCHANGED <<kind, cc, uo>>

Next ==
    \/ Construct_create_collection
    \/ Set_capped
    \/ Set_collation
    \/ Set_max
    \/ Set_no_padding
    \/ Set_size
    \/ Set_storage_engine
    \/ Set_validation_criteria
    \/ Get_capped
    \/ Get_collation
    \/ Get_max
    \/ Get_no_padding
    \/ Get_size
    \/ Get_storage_engine
    \/ Get_validation_criteria
    \/ Call_to_document_deprecated
    \/ Call_to_document
    \/ Construct_update_one
    \/ Construct_update_one_pipeline
    \/ Construct_update_one_empty
    \/ Set_update_one_collation
    \/ Set_update_one_hint
    \/ Set_update_one_upsert
    \/ Set_update_one_array_filters
    \/ Get_update_one_filter
    \/ Get_update_one_update
    \/ Get_update_one_collation
    \/ Get_update_one_hint
    \/ Get_update_one_upsert
    \/ Get_update_one_array_filters

Spec == Init /\ [][Next]_vars

\* ---------------------------------------------------------- wire contract
CompileOps == {"to_document_deprecated", "to_document"}

Compiled == kind = "create_collection" /\ last.op \in CompileOps

\* the optional members that have a wire key of their own, and that key
WireKey ==
    [_capped |-> "capped", _collation |-> "collation", _max_documents |-> "max",
     _max_size |-> "size", _no_padding |-> "flags",
     _storage_engine_opts |-> "storageEngine"]

OwnKeys == <<"capped", "collation", "max", "size", "flags", "storageEngine">>

FieldOfKey(k) == CHOOSE f \in DOMAIN WireKey : WireKey[f] = k

Range(seq) == {seq[i] : i \in 1..Len(seq)}

HasPair(doc, k, v) == \E i \in 1..Len(doc) : doc[i][1] = k /\ doc[i][2] = v

\* C1: after either compiler call the document has the wire key of a field
\* exactly when the field is present; capped(false), max(0) and size(0) are
\* emitted with their value; no element is a null; a container with no
\* optional field set compiles to the empty document.
C1_PresenceIffKey ==
    Compiled =>
        LET doc == ret[2] IN
        /\ \A f \in DOMAIN WireKey : HasKey(doc, WireKey[f]) <=> cc[f] # nullopt
        /\ cc._capped = Some(FALSE) => HasPair(doc, "capped", <<"bool", FALSE>>)
        /\ cc._max_documents = Some(0) => HasPair(doc, "max", <<"int64", 0>>)
        /\ cc._max_size = Some(0) => HasPair(doc, "size", <<"int64", 0>>)
        /\ \A i \in 1..Len(doc) : doc[i][2][1] # "null"
        /\ (\A f \in DOMAIN cc : cc[f] = nullopt) => doc = <<>>

C1_Witness ==
    /\ Compiled
    /\ last.op = "to_document_deprecated"
    /\ cc._capped = Some(FALSE)
    /\ cc._max_documents = Some(0)
    /\ cc._max_size = Some(0)
    /\ cc._collation = nullopt
    /\ cc._no_padding = nullopt

\* C2: the keys of the compiled document are the keys capped, collation, max,
\* size, flags, storageEngine of the present fields in that order, followed by
\* the keys of the validation criteria, whatever calls built the container.
C2_FixedKeyOrder ==
    Compiled =>
        LET doc == ret[2]
            IsPresent(k) == cc[FieldOfKey(k)] # nullopt
            validation == IF cc._validation = nullopt THEN <<>>
                          ELSE Keys(validation_to_document_deprecated(cc._validation[1]))
        IN  Keys(doc) = SelectSeq(OwnKeys, IsPresent) \o validation

C2_Witness ==
    /\ Compiled
    /\ cc._max_size # nullopt
    /\ cc._max_documents # nullopt
    /\ cc._storage_engine_opts # nullopt
    /\ cc._capped = nullopt
    /\ cc._validation # nullopt
    /\ Len(ret[2]) >= 4

\* C3: the compiled document has exactly one "flags" element, the int32 16,
\* when no_padding holds true, exactly one, the int32 0, when it holds false,
\* and no "flags" element when no_padding is absent.
C3_FlagsExact ==
    Compiled =>
        LET doc == ret[2]
            flags == {i \in 1..Len(doc) : doc[i][1] = "flags"}
        IN  /\ cc._no_padding = nullopt => flags = {}
            /\ cc._no_padding # nullopt =>
                  /\ Cardinality(flags) = 1
                  /\ \A i \in flags :
                        doc[i][2] = <<"int32", IF cc._no_padding[1] THEN 16 ELSE 0>>

C3_Witness ==
    /\ Compiled
    /\ cc._no_padding = Some(TRUE)
    /\ cc._capped = Some(FALSE)
    /\ HasPair(ret[2], "flags", <<"int32", 16>>)

\* C7: when the validation criteria are present their compiled document is
\* the tail of the compiled document, element for element, and every element
\* before it carries one of the six own keys; when they are absent every
\* element carries one of the six own keys.
C7_ValidationSpliced ==
    Compiled =>
        LET doc == ret[2]
            sub == IF cc._validation = nullopt THEN <<>>
                   ELSE validation_to_document_deprecated(cc._validation[1])
            n == Len(doc) - Len(sub)
        IN  /\ n >= 0
            /\ \A i \in 1..n : doc[i][1] \in Range(OwnKeys)
            /\ \A j \in 1..Len(sub) : doc[n + j] = sub[j]

C7_Witness ==
    /\ Compiled
    /\ cc._validation # nullopt
    /\ Len(validation_to_document_deprecated(cc._validation[1])) >= 2
    /\ cc._collation # nullopt
    /\ HasKey(ret[2], "validator")
    /\ HasKey(ret[2], "validationLevel")

\* ------------------------------------------------- setters and getters
\* the member each setter is declared to assign
CCSetterField ==
    [capped |-> "_capped", collation |-> "_collation", max |-> "_max_documents",
     no_padding |-> "_no_padding", size |-> "_max_size",
     storage_engine |-> "_storage_engine_opts",
     validation_criteria |-> "_validation"]

UOSetterField ==
    [collation |-> "_collation", hint |-> "_hint", upsert |-> "_upsert",
     array_filters |-> "_array_filters"]

\* the member each getter is declared to return
CCGetterField ==
    [f \in {"capped()", "collation()", "max()", "no_padding()", "size()",
            "storage_engine()", "validation_criteria()"} |->
        CASE f = "capped()" -> "_capped"
          [] f = "collation()" -> "_collation"
          [] f = "max()" -> "_max_documents"
          [] f = "no_padding()" -> "_no_padding"
          [] f = "size()" -> "_max_size"
          [] f = "storage_engine()" -> "_storage_engine_opts"
          [] f = "validation_criteria()" -> "_validation"]

UOGetterField ==
    [f \in {"collation()", "hint()", "upsert()", "array_filters()"} |->
        CASE f = "collation()" -> "_collation"
          [] f = "hint()" -> "_hint"
          [] f = "upsert()" -> "_upsert"
          [] f = "array_filters()" -> "_array_filters"]

UOOptionalFields == {"_collation", "_hint", "_upsert", "_array_filters"}

\* C4: a setter call with argument v leaves its own member present with v
\* and every other member of the container, for update_one the filter and
\* the update too, as it was before the call.
C4_SetterIsolation ==
    [][ /\ (kind = "create_collection" /\ last'.op \in DOMAIN CCSetterField) =>
             LET f == CCSetterField[last'.op] IN
             /\ cc'[f] = Some(last'.args[1])
             /\ \A g \in DOMAIN cc \ {f} : cc'[g] = cc[g]
        /\ (kind = "update_one" /\ last'.op \in DOMAIN UOSetterField) =>
             LET f == UOSetterField[last'.op] IN
             /\ uo'[f] = Some(last'.args[1])
             /\ \A g \in DOMAIN uo \ {f} : uo'[g] = uo[g]
      ]_vars

C4_Witness ==
    /\ kind = "create_collection"
    /\ last.op = "storage_engine"
    /\ cc._storage_engine_opts = Some(SampleDoc(1))
    /\ cc._collation = Some(SampleDoc(0))
    /\ cc._capped = Some(TRUE)

ConstructorOps == {"update_one", "update_one_pipeline", "update_one_empty"}

\* C5: right after each of the three update_one constructors collation, hint,
\* upsert and array_filters are absent and the filter is the one supplied;
\* a getter of an absent member returns the absent optional.
C5_FreshAbsent ==
    /\ (kind = "update_one" /\ last.op \in ConstructorOps) =>
          /\ \A f \in UOOptionalFields : uo[f] = nullopt
          /\ uo._filter = last.args[1]
    /\ (kind = "update_one" /\ last.op \in DOMAIN UOGetterField
          /\ uo[UOGetterField[last.op]] = nullopt) =>
          ret = <<"optional", nullopt>>

C5_Witness ==
    /\ kind = "update_one"
    /\ last.op = "update_one_empty"
    /\ last.args[1] = SampleDoc(1)
    /\ uo._upsert = nullopt

RenderedPipeline(p) == [i \in 1..Len(p) |-> <<ToString(i - 1), <<"document", p[i]>>>>]

C8_PipelineEquivalence ==
    (kind = "update_one" /\ last.op = "update_one_pipeline") =>
        uo = update_one(last.args[1], RenderedPipeline(last.args[2]))

C8_Witness ==
    /\ kind = "update_one"
    /\ last.op = "update_one_pipeline"
    /\ Len(last.args[2]) = 2
    /\ Keys(uo._update) = <<"0", "1">>

\* C9: the empty-literal constructor is defined for every filter, keeps the
\* filter and stores the empty document as update, as the document
\* constructor does when handed the empty document.
C9_EmptyUpdate ==
    /\ kind = "none" => ENABLED Construct_update_one_empty
    /\ (kind = "update_one" /\ last.op = "update_one_empty") =>
          /\ uo._filter = last.args[1]
          /\ uo._update = SampleDoc(0)
          /\ uo = update_one(last.args[1], SampleDoc(0))

C9_Witness ==
    /\ kind = "update_one"
    /\ last.op = "update_one_empty"
    /\ uo._filter = SampleDoc(1)
    /\ uo._update = <<>>

\* C10: a present member stays present; a member changes only in a call of
\* its own setter, to the argument of that call; every setter returns *this;
\* every getter returns its member as stored.
C10_LastWriteWins ==
    [][ /\ kind = "create_collection" =>
             /\ \A f \in DOMAIN cc : cc[f] # nullopt => cc'[f] # nullopt
             /\ \A f \in DOMAIN cc : cc'[f] # cc[f] =>
                   /\ last'.op \in DOMAIN CCSetterField
                   /\ CCSetterField[last'.op] = f
             /\ last'.op \in DOMAIN CCSetterField =>
                   /\ cc'[CCSetterField[last'.op]] = Some(last'.args[1])
                   /\ ret' = self
             /\ last'.op \in DOMAIN CCGetterField =>
                   ret' = <<"optional", cc'[CCGetterField[last'.op]]>>
        /\ kind = "update_one" =>
             /\ \A f \in UOOptionalFields : uo[f] # nullopt => uo'[f] # nullopt
             /\ \A f \in DOMAIN uo : uo'[f] # uo[f] =>
                   /\ last'.op \in DOMAIN UOSetterField
                   /\ UOSetterField[last'.op] = f
             /\ last'.op \in DOMAIN UOSetterField =>
                   /\ uo'[UOSetterField[last'.op]] = Some(last'.args[1])
                   /\ ret' = self
             /\ last'.op \in DOMAIN UOGetterField =>
                   ret' = <<"optional", uo'[UOGetterField[last'.op]]>>
      ]_vars

\* a getter call on a member that has been set
C10_Witness ==
    /\ kind = "update_one"
    /\ last.op = "upsert()"
    /\ ret = <<"optional", Some(FALSE)>>
    /\ uo._hint # nullopt

\* ----------------------------------------------------------------- typing
TypeOK ==
    /\ kind \in {"none", "create_collection", "update_one"}
    /\ kind = "create_collection" => uo = NoObject
    /\ kind = "update_one" => cc = NoObject
====
